---- MODULE Spec2Model ----
(***************************************************************************)
(* LunarDB API: the per-IP rate limiter registry (package middleware), the *)
(* in-memory key-value store and the API-key protected gin routes (package *)
(* main).  Time is counted in ticks, Second ticks to the second; a token   *)
(* count is kept in units of 1/Second token so that a refill over a whole  *)
(* number of ticks is exact.                                               *)
(***************************************************************************)
EXTENDS Integers, Sequences, FiniteSets, TLC

VARIABLES
    now,      \* the wall clock, in ticks (time.Now())
    nticks,   \* how many times the clock has advanced
    clients,  \* rl.clients: identity -> [limiter, lastSeen]
    mu,       \* rl.mu: 0 when free, else the thread holding it
    lims,     \* the rate.Limiter objects shared so far, by address 1..Len(lims)
    th,       \* per thread: its position and locals
    wake,     \* when the sweeper goroutine's time.Sleep ends
    calls,    \* history: per limiter, its Allow() calls: [at, ok]
    last,     \* history: the handler's answer or the sweep that was the last step
    data,     \* db.data: key -> value
    dbmu,     \* db.mu: [writer: 0 or the thread holding Lock, readers: those holding RLock]
    keys,     \* keyManager.keys: the API keys registered with AddKey
    rq,       \* per gin request thread: its position and request
    reply,    \* history: the response that was the last step, if one was
    writes    \* history: per key, the Set and Del calls completed on it, in order

rl == <<now, nticks, clients, mu, lims, th, wake, calls, last>>
api == <<data, dbmu, keys, rq, reply, writes>>
vars == <<rl, api>>

----------------------------------------------------------------------------
(* Bounds of the model *)

NWorkers == 2
MaxTicks == 3
MaxLimiters == 2
MaxLog == 7
MaxRequests == 2
MaxWrites == 2
Second == 2

(* Program constants *)

Rate == 1
Burst == 5

Minute == 60 * Second
Hour == 60 * Minute
Expiration == 1 * Hour
SleepInterval == Hour

Workers == 1..NWorkers
SweeperId == NWorkers + 1
Procs == Workers \cup {SweeperId}
Free == 0
NoLimiter == 0

Remotes == {"", "b"}
Forwards == {"", "b"}
Idents == Remotes \cup Forwards
Deltas == {Minute, 59 * Minute}

(* One client, and a clock that passes the expiration in one step. *)
EvictIdents == {"b"}
EvictDeltas == {61 * Minute}

(* Requests whose connection address and forwarding header differ. *)
RemoteAddrs == {"", "a"}
ForwardedFors == {"", "b"}
GateIdents == RemoteAddrs \cup ForwardedFors
ShortDeltas == {1}

One == Second

Min(a, b) == IF a < b THEN a ELSE b

----------------------------------------------------------------------------
(* rate.Limiter *)

NewLimiter(r, b, t) == [limit |-> r, burst |-> b, tokens |-> b * One, last |-> t]

(* Advance without the cap at burst. *)
AdvanceUncapped(l, t) == l.tokens + l.limit * (t - l.last)

Advance(l, t) == Min(l.burst * One, l.tokens + l.limit * (t - l.last))

AllowResult(l, t) ==
    LET tk == Advance(l, t)
    IN  IF tk >= One
        THEN [ok |-> TRUE, lim |-> [l EXCEPT !.tokens = tk - One, !.last = t]]
        ELSE [ok |-> FALSE, lim |-> [l EXCEPT !.tokens = tk, !.last = t]]

----------------------------------------------------------------------------
(* The registry *)

(* NewIPRateLimiter called with its two arguments exchanged. *)
LimiterConfigSwapped == [rate |-> Burst, burst |-> Rate]

LimiterConfig == [rate |-> Rate, burst |-> Burst]

NewClient(l, t) == [limiter |-> l, lastSeen |-> t]

(* The staleness test with >= for >. *)
StaleInclusive(c, t) == t - c.lastSeen >= Expiration

Stale(c, t) == t - c.lastSeen > Expiration

Swept(cs, t) == [ip \in {i \in DOMAIN cs : ~Stale(cs[i], t)} |-> cs[ip]]

(* The identity taken from RemoteAddr whatever the header says. *)
ClientIPRemoteOnly(remote, forwarded) == remote

ClientIP(remote, forwarded) == IF forwarded # "" THEN forwarded ELSE remote

IdleThread == [pc |-> "idle", ip |-> "", lim |-> << >>, via |-> "user",
               req |-> FALSE, held |-> NoLimiter]

NoEvent == [op |-> "none", t |-> 0, pre |-> << >>]

Event(op, t) == [op |-> op, t |-> t, pre |-> clients]

(* The gin engine of package main *)

StoreKeys == {"a", "b"}
StoreVals == {"1", "2"}
ApiKeys == {"k1", "k2"}
Routes == {"set", "get", "del", "keys", "query", "schema"}

(* v1.Use(...): the middleware in front of the /api/v1 handlers. *)
ProtectedChain == {"APIKeyMiddleware"}

IdleRequest == [pc |-> "idle", route |-> "", hdr |-> "", key |-> "", val |-> "",
                passed |-> {}]

NoReply == [route |-> "", key |-> "", hdr |-> "", status |-> 0, out |-> << >>]

Init ==
    /\ now = 0
    /\ nticks = 0
    /\ clients = << >>
    /\ mu = Free
    /\ lims = << >>
    /\ th = [t \in Procs |-> IF t = SweeperId THEN [IdleThread EXCEPT !.pc = "off"]
                                              ELSE IdleThread]
    /\ wake = 0
    /\ calls = << >>
    /\ last = NoEvent
    /\ data = << >>
    /\ dbmu = [writer |-> Free, readers |-> {}]
    /\ keys = {}
    /\ rq = [t \in Workers |-> IdleRequest]
    /\ reply = NoReply
    /\ writes = [k \in StoreKeys |-> << >>]

Installed == th[SweeperId].pc # "off"

(* How many limiters the AddClient calls in flight are going to share. *)
Pending == Cardinality({t \in Workers : th[t].pc \in {"ac_lock", "ac_insert"}
                                          /\ th[t].via = "user"})

CanAllocate == Len(lims) + Pending < MaxLimiters

Logged(log, t, ok) == Append(log, [at |-> t, ok |-> ok])

RECURSIVE TotalLen(_)
TotalLen(logs) == IF logs = << >> THEN 0 ELSE Len(Head(logs)) + TotalLen(Tail(logs))

(* The requests seen so far: those answered and those in flight. *)
Requests ==
    TotalLen(calls) + Cardinality({t \in Workers : th[t].req})

Tick(d) ==
    /\ nticks < MaxTicks
    /\ now' = now + d
    /\ nticks' = nticks + 1
    /\ last' = NoEvent
    /\ UNCHANGED <<clients, mu, lims, th, wake, calls, api>>

(* What a thread is left with when its call returns limiter l: a request goes *)
(* on to Allow(), any other caller is done.                                    *)
Returned(t, l) ==
    IF th[t].req
    THEN [IdleThread EXCEPT !.pc = "allow", !.ip = th[t].ip, !.req = TRUE, !.held = l]
    ELSE IdleThread

(* AddClient making its limiter with a burst one too large. *)
EnterAddClientBurstOff(t, ip, via) ==
    th' = [th EXCEPT ![t] = [th[t] EXCEPT
              !.pc = "ac_lock", !.ip = ip, !.via = via,
              !.lim = NewLimiter(LimiterConfig.rate, LimiterConfig.burst + 1, now)]]

(* AddClient is entered by thread t, from `via`: *)
(* limiter := rate.NewLimiter(rl.rate, rl.burst), and rl.mu.Lock() is next. *)
(* The new limiter is the thread's own until the insert shares it.          *)
EnterAddClient(t, ip, via) ==
    th' = [th EXCEPT ![t] = [th[t] EXCEPT
              !.pc = "ac_lock", !.ip = ip, !.via = via,
              !.lim = NewLimiter(LimiterConfig.rate, LimiterConfig.burst, now)]]

(* A caller calls AddClient(ip). *)
CallAddClient(t, ip) ==
    /\ th[t].pc = "idle"
    /\ CanAllocate
    /\ EnterAddClient(t, ip, "user")
    /\ last' = NoEvent
    /\ UNCHANGED <<now, nticks, clients, mu, lims, wake, calls, api>>

(* A caller calls AddClient(ip) for an identity that has no entry, no other *)
(* AddClient call being under way: an entry is made only where none is.     *)
AddAbsentClient(t, ip) ==
    /\ ip \notin DOMAIN clients
    /\ Pending = 0
    /\ CallAddClient(t, ip)

(* AddClient: rl.mu.Lock() *)
AddClientLock(t) ==
    /\ th[t].pc = "ac_lock"
    /\ mu = Free
    /\ mu' = t
    /\ th' = [th EXCEPT ![t].pc = "ac_insert"]
    /\ last' = NoEvent
    /\ UNCHANGED <<now, nticks, clients, lims, wake, calls, api>>

Inserted(cs, ip, c) ==
    [i \in DOMAIN cs \cup {ip} |-> IF i = ip THEN c ELSE cs[i]]

(* AddClient: the insert, rl.mu.Unlock() and the return of the limiter. *)
(* (Called from GetLimiter it would return into GetLimiter's deferred   *)
(* Unlock; no such call gets here, rl.mu being held by the caller.)      *)
AddClientInsert(t) ==
    /\ th[t].pc = "ac_insert"
    /\ lims' = Append(lims, th[t].lim)
    /\ calls' = Append(calls, << >>)
    /\ clients' = Inserted(clients, th[t].ip, NewClient(Len(lims) + 1, now))
    /\ mu' = Free
    /\ th' = [th EXCEPT ![t] = Returned(t, Len(lims) + 1)]
    /\ last' = NoEvent
    /\ UNCHANGED <<now, nticks, wake, api>>

(* RateLimitMiddleware(next): starts the sweeper goroutine, which sleeps an *)
(* hour before each CleanupStaleClients, and returns the handler.           *)
Install ==
    /\ ~Installed
    /\ th' = [th EXCEPT ![SweeperId].pc = "sleep"]
    /\ wake' = now + SleepInterval
    /\ last' = NoEvent
    /\ UNCHANGED <<now, nticks, clients, mu, lims, calls, api>>

(* The handler is entered for a request: the identity is derived and *)
(* limiter.GetLimiter(ip) is called.  The history keeps the request's *)
(* RemoteAddr and X-Forwarded-For.                                    *)
Request(t, remote, forwarded, cap) ==
    /\ Installed
    /\ th[t].pc = "idle"
    /\ Requests < cap
    /\ th' = [th EXCEPT ![t] = [IdleThread EXCEPT !.pc = "gl_lock",
                                   !.ip = ClientIP(remote, forwarded), !.req = TRUE]]
    /\ last' = [op |-> "request", t |-> t, pre |-> <<remote, forwarded>>]
    /\ UNCHANGED <<now, nticks, clients, mu, lims, wake, calls, api>>

(* GetLimiter: rl.mu.Lock() *)
GetLimiterLock(t) ==
    /\ th[t].pc = "gl_lock"
    /\ mu = Free
    /\ mu' = t
    /\ th' = [th EXCEPT ![t].pc = "gl_check"]
    /\ last' = NoEvent
    /\ UNCHANGED <<now, nticks, clients, lims, wake, calls, api>>

(* lastSeen set to the zero time. *)
TouchedZero(cs, ip, t) == [cs EXCEPT ![ip].lastSeen = 0]

Touched(cs, ip, t) == [cs EXCEPT ![ip].lastSeen = t]

(* GetLimiter refilling the limiter of the entry it finds. *)
GetLimiterHitRefilled(t) ==
    /\ th[t].pc = "gl_check"
    /\ th[t].ip \in DOMAIN clients
    /\ clients' = Touched(clients, th[t].ip, now)
    /\ lims' = [lims EXCEPT ![clients[th[t].ip].limiter].tokens = Burst * One]
    /\ mu' = Free
    /\ th' = [th EXCEPT ![t] = Returned(t, clients[th[t].ip].limiter)]
    /\ last' = NoEvent
    /\ UNCHANGED <<now, nticks, wake, calls, api>>

(* GetLimiter, the identity has an entry: lastSeen is updated, the deferred *)
(* Unlock runs and the entry's limiter is returned.                         *)
GetLimiterHit(t) ==
    /\ th[t].pc = "gl_check"
    /\ th[t].ip \in DOMAIN clients
    /\ clients' = Touched(clients, th[t].ip, now)
    /\ mu' = Free
    /\ th' = [th EXCEPT ![t] = Returned(t, clients[th[t].ip].limiter)]
    /\ last' = NoEvent
    /\ UNCHANGED <<now, nticks, lims, wake, calls, api>>

(* GetLimiter, the identity has no entry: return rl.AddClient(ip), called *)
(* with rl.mu still held.                                                  *)
GetLimiterMiss(t) ==
    /\ th[t].pc = "gl_check"
    /\ th[t].ip \notin DOMAIN clients
    /\ EnterAddClient(t, th[t].ip, "GetLimiter")
    /\ last' = NoEvent
    /\ UNCHANGED <<now, nticks, clients, mu, lims, wake, calls, api>>

(* The handler without the return after the 429: next is served anyway. *)
GateNoReturn(t) ==
    /\ th[t].pc = "allow"
    /\ LET r == AllowResult(lims[th[t].held], now)
       IN  /\ lims' = [lims EXCEPT ![th[t].held] = r.lim]
           /\ calls' = [calls EXCEPT ![th[t].held] = Logged(@, now, r.ok)]
           /\ th' = [th EXCEPT ![t] = IdleThread]
           /\ last' = [op |-> "next", t |-> t, pre |-> << >>]
    /\ UNCHANGED <<now, nticks, clients, mu, wake, api>>

(* The handler: limiter.Allow(); false answers 429 and returns, true calls *)
(* next.ServeHTTP.                                                          *)
Gate(t) ==
    /\ th[t].pc = "allow"
    /\ LET r == AllowResult(lims[th[t].held], now)
       IN  /\ lims' = [lims EXCEPT ![th[t].held] = r.lim]
           /\ calls' = [calls EXCEPT ![th[t].held] = Logged(@, now, r.ok)]
           /\ th' = [th EXCEPT ![t] = IdleThread]
           /\ last' = [op |-> IF r.ok THEN "next" ELSE "429", t |-> t, pre |-> << >>]
    /\ UNCHANGED <<now, nticks, clients, mu, wake, api>>

(* The sweeper goroutine: time.Sleep(time.Hour) is over. *)
SweeperWake ==
    /\ th[SweeperId].pc = "sleep"
    /\ now >= wake
    /\ th' = [th EXCEPT ![SweeperId].pc = "cl_lock"]
    /\ last' = NoEvent
    /\ UNCHANGED <<now, nticks, clients, mu, lims, wake, calls, api>>

(* CleanupStaleClients: rl.mu.Lock() *)
CleanupLock(p) ==
    /\ th[p].pc = "cl_lock"
    /\ mu = Free
    /\ mu' = p
    /\ th' = [th EXCEPT ![p].pc = "cl_sweep"]
    /\ last' = NoEvent
    /\ UNCHANGED <<now, nticks, clients, lims, wake, calls, api>>

(* CleanupStaleClients: the loop over rl.clients and the deferred Unlock; *)
(* the sweeper then sleeps another hour.                                   *)
CleanupSweep(p) ==
    /\ th[p].pc = "cl_sweep"
    /\ clients' = Swept(clients, now)
    /\ mu' = Free
    /\ th' = [th EXCEPT ![p].pc = "sleep"]
    /\ wake' = now + SleepInterval
    /\ last' = Event("Cleanup", p)
    /\ UNCHANGED <<now, nticks, lims, calls, api>>

----------------------------------------------------------------------------
(* LunarDB, the API keys and the /api/v1 routes *)

(* Set that leaves a key that is present as it is. *)
StoreSetIfAbsent(d, k, v) == [i \in DOMAIN d \cup {k} |-> IF i \in DOMAIN d THEN d[i] ELSE v]

StoreSet(d, k, v) == [i \in DOMAIN d \cup {k} |-> IF i = k THEN v ELSE d[i]]

StoreGet(d, k) == IF k \in DOMAIN d THEN <<d[k], TRUE>> ELSE <<"", FALSE>>

(* Del that empties the store. *)
StoreDelAll(d, k) == IF k \in DOMAIN d THEN << >> ELSE d

StoreDel(d, k) == IF k \in DOMAIN d THEN [i \in DOMAIN d \ {k} |-> d[i]] ELSE d

(* A range over the map that may yield a key more than once. *)
KeyListsRepeating(d) == [1..Cardinality(DOMAIN d) -> DOMAIN d]

(* The orders in which a range over the map can yield its keys. *)
KeyLists(d) ==
    {f \in [1..Cardinality(DOMAIN d) -> DOMAIN d] : \A k \in DOMAIN d : \E i \in DOMAIN f : f[i] = k}

(* ValidateKey accepting whatever it is given. *)
ValidateKeyAny(ks, k) == TRUE

ValidateKey(ks, k) == k \in ks

KeysIn(route) == IF route = "set" THEN StoreKeys \cup {""}
                 ELSE IF route \in {"get", "del"} THEN StoreKeys ELSE {""}

ValsIn(route) == IF route = "set" THEN StoreVals \cup {""} ELSE {""}

Recorded(w, e) == IF Len(w) < MaxWrites THEN Append(w, e) ELSE Append(Tail(w), e)

(* keyManager.AddKey(key) *)
AddKey(k) ==
    /\ k \notin keys
    /\ keys' = keys \cup {k}
    /\ reply' = NoReply
    /\ UNCHANGED <<rl, data, dbmu, rq, writes>>

(* The request r of thread t is answered. *)
Respond(t, r, status, out) ==
    /\ rq' = [rq EXCEPT ![t] = IdleRequest]
    /\ reply' = [route |-> r.route, status |-> status, out |-> out, hdr |-> r.hdr,
                 key |-> IF r.pc = "idle" THEN "" ELSE r.key]

(* The request r of thread t goes on to pc. *)
Goto(t, r, pc) ==
    /\ rq' = [rq EXCEPT ![t] = [r EXCEPT !.pc = pc]]
    /\ reply' = NoReply

(* Where the route's handler first stops: at db.mu, or at its response. *)
Handler(t, r) ==
    CASE r.route = "set" ->
            IF r.key = "" \/ r.val = ""
            THEN Respond(t, r, 400, << >>)
            ELSE Goto(t, r, "lock")
      [] r.route = "del" -> Goto(t, r, "lock")
      [] r.route \in {"get", "keys"} -> Goto(t, r, "rlock")
      [] OTHER -> Respond(t, r, 200, << >>)

(* APIKeyMiddleware: 401 and abort, or c.Next() into the handler. *)
APIKeyMiddleware(t, r) ==
    IF r.hdr = "" \/ ~ValidateKey(keys, r.hdr)
    THEN Respond(t, r, 401, << >>)
    ELSE Handler(t, [r EXCEPT !.passed = @ \cup {"APIKeyMiddleware"}])

(* A request arrives on a route of the /api/v1 group and runs through the *)
(* group's middleware into its handler.                                    *)
ApiRequest(t, route, hdr, key, val) ==
    /\ rq[t].pc = "idle"
    /\ LET r == [IdleRequest EXCEPT !.route = route, !.hdr = hdr, !.key = key,
                                     !.val = val]
       IN  IF "APIKeyMiddleware" \in ProtectedChain
           THEN APIKeyMiddleware(t, r)
           ELSE Handler(t, r)
    /\ UNCHANGED <<rl, data, dbmu, keys, writes>>

(* Lock() that does not wait for the readers to leave. *)
DbLockOverReaders(t) ==
    /\ rq[t].pc = "lock"
    /\ dbmu.writer = Free
    /\ dbmu' = [dbmu EXCEPT !.writer = t]
    /\ Goto(t, rq[t], "write")
    /\ UNCHANGED <<rl, data, keys, writes>>

(* db.mu.Lock() of Set and Del *)
DbLock(t) ==
    /\ rq[t].pc = "lock"
    /\ dbmu.writer = Free /\ dbmu.readers = {}
    /\ dbmu' = [dbmu EXCEPT !.writer = t]
    /\ Goto(t, rq[t], "write")
    /\ UNCHANGED <<rl, data, keys, writes>>

(* db.mu.RLock() of Get and Keys *)
DbRLock(t) ==
    /\ rq[t].pc = "rlock"
    /\ dbmu.writer = Free
    /\ dbmu' = [dbmu EXCEPT !.readers = @ \cup {t}]
    /\ Goto(t, rq[t], "read")
    /\ UNCHANGED <<rl, data, keys, writes>>

(* Set and Del under the lock, the deferred Unlock and the handler's answer. *)
DbWrite(t) ==
    /\ rq[t].pc = "write"
    /\ LET k == rq[t].key
       IN  IF rq[t].route = "set"
           THEN /\ data' = StoreSet(data, k, rq[t].val)
                /\ writes' = [writes EXCEPT ![k] = Recorded(@, <<"set", rq[t].val>>)]
                /\ Respond(t, rq[t], 200, <<"OK">>)
           ELSE /\ data' = StoreDel(data, k)
                /\ writes' = [writes EXCEPT ![k] = Recorded(@, <<"del", "">>)]
                /\ IF k \in DOMAIN data THEN Respond(t, rq[t], 200, <<"OK">>)
                                         ELSE Respond(t, rq[t], 404, << >>)
    /\ dbmu' = [dbmu EXCEPT !.writer = Free]
    /\ UNCHANGED <<rl, keys>>

(* Get and Keys under the read lock, the deferred RUnlock and the answer. *)
DbRead(t) ==
    /\ rq[t].pc = "read"
    /\ IF rq[t].route = "get"
       THEN LET g == StoreGet(data, rq[t].key)
            IN  IF g[2] THEN Respond(t, rq[t], 200, g) ELSE Respond(t, rq[t], 404, g)
       ELSE \E ks \in KeyLists(data) : Respond(t, rq[t], 200, ks)
    /\ dbmu' = [dbmu EXCEPT !.readers = @ \ {t}]
    /\ UNCHANGED <<rl, data, keys, writes>>

NextApi ==
    \/ \E k \in ApiKeys : AddKey(k)
    \/ \E t \in Workers, route \in Routes, hdr \in ApiKeys \cup {""} :
          \E key \in KeysIn(route), val \in ValsIn(route) :
              ApiRequest(t, route, hdr, key, val)
    \/ \E t \in Workers : DbLock(t)
    \/ \E t \in Workers : DbRLock(t)
    \/ \E t \in Workers : DbWrite(t)
    \/ \E t \in Workers : DbRead(t)

SpecApi == Init /\ [][NextApi]_vars

----------------------------------------------------------------------------
Next ==
    \/ \E d \in Deltas : Tick(d)
    \/ \E t \in Workers, ip \in Idents : CallAddClient(t, ip)
    \/ \E t \in Workers : AddClientLock(t)
    \/ \E t \in Workers : AddClientInsert(t)
    \/ Install
    \/ \E t \in Workers, remote \in Remotes, forwarded \in Forwards :
          Request(t, remote, forwarded, MaxRequests)
    \/ \E t \in Workers : GetLimiterLock(t)
    \/ \E t \in Workers : GetLimiterHit(t)
    \/ \E t \in Workers : GetLimiterMiss(t)
    \/ \E t \in Workers : Gate(t)
    \/ SweeperWake
    \/ CleanupLock(SweeperId)
    \/ CleanupSweep(SweeperId)

Spec == Init /\ [][Next]_vars

(* The same program with the clock advancing in single ticks. *)
NextShort ==
    \/ \E d \in ShortDeltas : Tick(d)
    \/ \E t \in Workers, ip \in Idents : CallAddClient(t, ip)
    \/ \E t \in Workers : AddClientLock(t)
    \/ \E t \in Workers : AddClientInsert(t)
    \/ Install
    \/ \E t \in Workers, remote \in Remotes, forwarded \in Forwards :
          Request(t, remote, forwarded, MaxLog)
    \/ \E t \in Workers : GetLimiterLock(t)
    \/ \E t \in Workers : GetLimiterHit(t)
    \/ \E t \in Workers : GetLimiterMiss(t)
    \/ \E t \in Workers : Gate(t)

SpecShort == Init /\ [][NextShort]_vars

(* The same program with requests whose two addresses differ. *)
NextIdent ==
    \/ \E d \in ShortDeltas : Tick(d)
    \/ \E t \in Workers, ip \in GateIdents : CallAddClient(t, ip)
    \/ \E t \in Workers : AddClientLock(t)
    \/ \E t \in Workers : AddClientInsert(t)
    \/ Install
    \/ \E t \in Workers, remote \in RemoteAddrs, forwarded \in ForwardedFors :
          Request(t, remote, forwarded, MaxRequests)
    \/ \E t \in Workers : GetLimiterLock(t)
    \/ \E t \in Workers : GetLimiterHit(t)
    \/ \E t \in Workers : GetLimiterMiss(t)
    \/ \E t \in Workers : Gate(t)

SpecIdent == Init /\ [][NextIdent]_vars

(* The same program serving one client over hours, with the sweeper. *)
NextEvict ==
    \/ \E d \in EvictDeltas : Tick(d)
    \/ \E t \in Workers, ip \in EvictIdents : AddAbsentClient(t, ip)
    \/ \E t \in Workers : AddClientLock(t)
    \/ \E t \in Workers : AddClientInsert(t)
    \/ Install
    \/ \E t \in Workers, remote \in EvictIdents : Request(t, remote, "", MaxLog)
    \/ \E t \in Workers : GetLimiterLock(t)
    \/ \E t \in Workers : GetLimiterHit(t)
    \/ \E t \in Workers : GetLimiterMiss(t)
    \/ \E t \in Workers : Gate(t)
    \/ SweeperWake
    \/ CleanupLock(SweeperId)
    \/ CleanupSweep(SweeperId)

SpecEvict == Init /\ [][NextEvict]_vars

----------------------------------------------------------------------------
(* Scheduling: a goroutine that can run does run (weak fairness of its     *)
(* steps), and a goroutine waiting for a sync mutex gets it if it is freed *)
(* again and again (strong fairness: the mutex's starvation mode).         *)

Runs(t) == GetLimiterHit(t) \/ GetLimiterMiss(t) \/ AddClientInsert(t) \/ Gate(t)

Acquires(t) == GetLimiterLock(t) \/ AddClientLock(t)

FairShort ==
    /\ SpecShort
    /\ \A t \in Workers : WF_vars(Runs(t)) /\ SF_vars(Acquires(t))

(* The sweeper goroutine is scheduled like any other. *)
SweeperRuns == SweeperWake \/ CleanupSweep(SweeperId)

FairSpec ==
    /\ Spec
    /\ \A t \in Workers : WF_vars(Runs(t)) /\ SF_vars(Acquires(t))
    /\ WF_vars(SweeperRuns) /\ SF_vars(CleanupLock(SweeperId))

----------------------------------------------------------------------------
(* Properties *)

Last(w) == w[Len(w)]

CeilDiv(a, b) == (a + b - 1) \div b

Handed(t, l) == th[t].pc = "allow" /\ th[t].held = l

(* Two GetLimiter calls for one identity that has no entry: one has found *)
(* the entry missing, the other is waiting for rl.mu.                      *)
ConcurrentFirstCalls(t, u, ip) ==
    /\ t # u
    /\ th[t].pc = "gl_check" /\ th[t].ip = ip
    /\ th[u].pc = "gl_lock" /\ th[u].ip = ip
    /\ ip \notin DOMAIN clients

(* C1: concurrent GetLimiter calls for one identity that has no entry yet *)
(* are all handed one and the same limiter.                               *)
C1_OneLimiterForAll ==
    \A t \in Workers, u \in Workers, ip \in Idents :
        [](ConcurrentFirstCalls(t, u, ip) =>
              \E l \in 1..MaxLimiters : <>Handed(t, l) /\ <>Handed(u, l))

(* The steps by which thread p goes on inside the call it is in. *)
Continues(p) ==
    \/ AddClientLock(p) \/ AddClientInsert(p)
    \/ GetLimiterLock(p) \/ GetLimiterHit(p) \/ GetLimiterMiss(p)
    \/ CleanupLock(p) \/ CleanupSweep(p)

WaitsForMu(p) == th[p].pc \in {"ac_lock", "gl_lock", "cl_lock"}

(* C2: no thread waits forever for rl.mu or db.mu: whenever a thread is    *)
(* waiting for the lock, the lock is free or every thread holding it can go *)
(* on to release it.                                                        *)
C2_NoThreadWaitsForever ==
    /\ \A p \in Procs : WaitsForMu(p) => (mu = Free \/ ENABLED Continues(mu))
    /\ \A t \in Workers :
          rq[t].pc \in {"lock", "rlock"} =>
              \A h \in dbmu.readers \cup ({dbmu.writer} \ {Free}) :
                  ENABLED (DbWrite(h) \/ DbRead(h))

(* C3: a request is at the store (waiting for or holding db.mu) only after *)
(* both the authentication layer and the rate limit gate accepted it.      *)
C3_BothLayersPassed ==
    \A t \in Workers :
        rq[t].pc \in {"lock", "rlock", "write", "read"} =>
            {"APIKeyMiddleware", "RateLimitMiddleware"} \subseteq rq[t].passed

(* C4: GetLimiter(ip) for an identity without entry inserts a new entry   *)
(* with a fresh, full limiter and lastSeen = now and returns that limiter. *)
C4_MissCreatesEntry ==
    \A t \in Workers :
        (th[t].pc = "gl_check" /\ th[t].ip \notin DOMAIN clients)
            ~> (/\ th[t].pc = "allow"
                /\ th[t].ip \in DOMAIN clients
                /\ clients[th[t].ip] = [limiter |-> th[t].held, lastSeen |-> now]
                /\ lims[th[t].held].tokens = Burst * One)

(* C5: CleanupStaleClients removes exactly the entries with                *)
(* lastSeen < now - expiration and leaves the others as they were; with the *)
(* expiration of one hour an entry last seen 59 minutes ago stays and one   *)
(* last seen 61 minutes ago goes.                                           *)
C5_SweepRemovesExactlyStale ==
    last.op = "Cleanup" =>
        /\ clients = [ip \in {i \in DOMAIN last.pre : ~(last.pre[i].lastSeen < now - Expiration)}
                        |-> last.pre[ip]]
        /\ \A ip \in DOMAIN last.pre :
              /\ now - last.pre[ip].lastSeen = 59 * Minute => ip \in DOMAIN clients
              /\ now - last.pre[ip].lastSeen = 61 * Minute => ip \notin DOMAIN clients

C5_Witness ==
    /\ last.op = "Cleanup"
    /\ \E a \in DOMAIN last.pre, b \in DOMAIN last.pre :
          /\ now - last.pre[a].lastSeen = 61 * Minute /\ a \notin DOMAIN clients
          /\ now - last.pre[b].lastSeen = 59 * Minute /\ b \in DOMAIN clients
          /\ clients[b] = last.pre[b]

(* The admissions among the calls i..j of a call history. *)
Admitted(log, i, j) == Cardinality({k \in i..j : log[k].ok})

(* C6: of the Allow() calls on one bucket that fall in any window of time *)
(* t, at most ceil(rate * t) + burst returned true.                        *)
C6_WindowBound ==
    \A l \in DOMAIN calls :
        \A i \in DOMAIN calls[l], j \in DOMAIN calls[l] :
            i <= j =>
                Admitted(calls[l], i, j)
                    <= CeilDiv(Rate * (calls[l][j].at - calls[l][i].at), Second) + Burst

C6_Witness ==
    \E l \in DOMAIN calls :
        \E i \in DOMAIN calls[l], j \in DOMAIN calls[l] :
            /\ i < j
            /\ calls[l][j].at > calls[l][i].at
            /\ \E k \in i..j : ~calls[l][k].ok
            /\ Admitted(calls[l], i, j)
                  = CeilDiv(Rate * (calls[l][j].at - calls[l][i].at), Second) + Burst

(* C7: the token count of every bucket is within [0, burst]. *)
C7_TokensInRange ==
    \A l \in DOMAIN lims : lims[l].tokens >= 0 /\ lims[l].tokens <= Burst * One

C7_Witness ==
    \E l \in DOMAIN lims, m \in DOMAIN lims :
        /\ lims[l].tokens = 0 /\ Len(calls[l]) >= Burst
        /\ Len(calls[m]) = 1 /\ calls[m][1].at > 0 /\ lims[m].tokens = (Burst - 1) * One

(* C8: a fresh bucket admits the first burst Allow() calls made with no   *)
(* time between them and rejects the next; a call made 1/rate or more      *)
(* after a rejected call, and next after it, is admitted.                  *)
C8_BurstThenReject ==
    \A l \in DOMAIN calls :
        \A i \in DOMAIN calls[l] :
            /\ (calls[l][i].at = calls[l][1].at /\ i <= Burst) => calls[l][i].ok
            /\ (calls[l][i].at = calls[l][1].at /\ i = Burst + 1) => ~calls[l][i].ok
            /\ (/\ i > 1
                /\ ~calls[l][i - 1].ok
                /\ calls[l][i].at - calls[l][i - 1].at >= CeilDiv(Second, Rate))
                   => calls[l][i].ok

C8_Witness ==
    \E l \in DOMAIN calls :
        /\ Rate = 1 /\ Burst = 5
        /\ Len(calls[l]) = Burst + 2
        /\ \A i \in 1..(Burst + 1) :
              calls[l][i].at = calls[l][1].at /\ (calls[l][i].ok <=> i <= Burst)
        /\ calls[l][Burst + 2].at = calls[l][Burst + 1].at + Second
        /\ calls[l][Burst + 2].ok

(* C9: when Allow() returns false the handler answers 429, does not call   *)
(* next, and changes nothing but the bucket's refill: no token is taken,   *)
(* and the registry, its lock and the store stay as they are.              *)
C9_RejectChangesNothing ==
    [][\A t \in Workers :
          (/\ th[t].pc = "allow" /\ th'[t].pc # "allow"
           /\ Advance(lims[th[t].held], now) < One)
             => /\ last'.op = "429" /\ last'.t = t
                /\ lims'[th[t].held].tokens = Advance(lims[th[t].held], now)
                /\ \A l \in DOMAIN lims : l # th[t].held => lims'[l] = lims[l]
                /\ clients' = clients
                /\ mu' = mu
                /\ api' = api]_vars

C9_Witness ==
    \E t \in Workers :
        /\ th[t].pc = "idle" /\ last.op = "429" /\ last.t = t
        /\ \E l \in DOMAIN calls : calls[l] # << >> /\ ~Last(calls[l]).ok /\ Last(calls[l]).at = now

(* C10: a Get of a key answers with the value of the last Set completed on *)
(* the key and true, also when that Set overwrote a value; after a Del it   *)
(* answers "" and false.                                                    *)
C10_RoundTrip ==
    (reply.route = "get" /\ reply.key # "" /\ writes[reply.key] # << >>) =>
        LET w == Last(writes[reply.key])
        IN  reply.out = IF w[1] = "set" THEN <<w[2], TRUE>> ELSE <<"", FALSE>>

C10_Witness ==
    /\ reply.route = "get"
    /\ reply.out = <<"2", TRUE>>
    /\ writes[reply.key] = << <<"set", "1">>, <<"set", "2">> >>
    /\ \E k \in StoreKeys : writes[k] # << >> /\ Last(writes[k])[1] = "del" /\ k \notin DOMAIN data

(* C11: Set, Get, Del and Keys exclude one another as a reader/writer lock  *)
(* does (a writer is alone in the store, readers only with readers); a key  *)
(* is in the store exactly when the last Set or Del completed on it was a   *)
(* Set, and then with that Set's value; a Get that finds a value finds the  *)
(* argument of the latest Set on the key.                                   *)
C11_PresentIffLastWriteSet ==
    /\ dbmu.writer # Free => dbmu.readers = {}
    /\ \A t \in Workers :
          /\ rq[t].pc = "write" <=> dbmu.writer = t
          /\ rq[t].pc = "read" <=> t \in dbmu.readers
    /\ \A k \in StoreKeys :
          /\ k \in DOMAIN data <=> (writes[k] # << >> /\ Last(writes[k])[1] = "set")
          /\ k \in DOMAIN data => data[k] = Last(writes[k])[2]
    /\ (reply.route = "get" /\ reply.status = 200) =>
          /\ writes[reply.key] # << >>
          /\ Last(writes[reply.key]) = <<"set", reply.out[1]>>

C11_Witness ==
    /\ \E k \in StoreKeys :
          /\ k \in DOMAIN data
          /\ writes[k] = << <<"del", "">>, <<"set", data[k]>> >>
    /\ \E k \in StoreKeys :
          /\ k \notin DOMAIN data
          /\ Len(writes[k]) = 2 /\ writes[k][1][1] = "set" /\ writes[k][2][1] = "del"
    /\ \E t \in Workers, u \in Workers :
          /\ rq[t].pc = "read" /\ rq[t].route = "get"
          /\ rq[u].pc = "lock" /\ rq[u].key = rq[t].key

(* C12: the list Keys() returns holds every key that is in the store at the *)
(* instant of the call, each once, and no other key, whatever Set and Del   *)
(* calls run beside it; after Set("a","1"), Set("b","2"), Del("a") it is    *)
(* exactly the list of "b".                                                 *)
C12_KeysSnapshot ==
    (reply.route = "keys" /\ reply.status = 200) =>
        /\ {reply.out[i] : i \in DOMAIN reply.out} = DOMAIN data
        /\ \A i \in DOMAIN reply.out, j \in DOMAIN reply.out :
              reply.out[i] = reply.out[j] => i = j
        /\ (/\ writes["a"] = << <<"set", "1">>, <<"del", "">> >>
            /\ writes["b"] = << <<"set", "2">> >>) => reply.out = <<"b">>

C12_Witness ==
    /\ reply.route = "keys" /\ reply.status = 200
    /\ reply.out = <<"b">>
    /\ writes["a"] = << <<"set", "1">>, <<"del", "">> >>
    /\ writes["b"] = << <<"set", "2">> >>
    /\ \E u \in Workers : rq[u].pc = "lock" /\ rq[u].route = "set"

(* C13: Del(k) of an absent key reports false (the handler answers 404)    *)
(* and leaves the store as it is; Del(k) of a present key reports true      *)
(* (200), removes k and leaves every other key with its value; a Del(k)     *)
(* that follows a Del(k) with no Set(k, _) between them reports false and   *)
(* leaves the store as the first Del left it.                               *)
C13_DelSemantics ==
    [][\A t \in Workers :
          (rq[t].pc = "write" /\ rq[t].route = "del" /\ rq'[t].pc = "idle") =>
              LET k == rq[t].key
              IN  /\ k \notin DOMAIN data => (data' = data /\ reply'.status = 404)
                  /\ k \in DOMAIN data =>
                        /\ DOMAIN data' = DOMAIN data \ {k}
                        /\ \A j \in DOMAIN data' : data'[j] = data[j]
                        /\ reply'.status = 200
                  /\ (writes[k] # << >> /\ Last(writes[k])[1] = "del") =>
                        (data' = data /\ reply'.status = 404)]_vars

C13_Witness ==
    /\ reply.route = "del" /\ reply.status = 404
    /\ writes[reply.key] = << <<"del", "">>, <<"del", "">> >>
    /\ \E j \in DOMAIN data : j # reply.key
    /\ \E j \in StoreKeys :
          /\ Len(writes[j]) = 2 /\ writes[j][1][1] = "del" /\ writes[j][2][1] = "set"

(* C14: a GetLimiter(ip) call that finds an entry returns the limiter of   *)
(* that entry and changes nothing in the registry but the entry's lastSeen: *)
(* no entry is added, removed or given another limiter, and no limiter's    *)
(* tokens change; so a call that follows another, the entry not swept       *)
(* between them, returns the same limiter.                                  *)
C14_LookupIdempotent ==
    [][\A t \in Workers :
          (th[t].pc = "gl_check" /\ th[t].ip \in DOMAIN clients /\ th'[t].pc # "gl_check") =>
              LET ip == th[t].ip
              IN  /\ th'[t].pc = "allow" /\ th'[t].held = clients[ip].limiter
                  /\ DOMAIN clients' = DOMAIN clients
                  /\ clients'[ip].limiter = clients[ip].limiter
                  /\ \A i \in DOMAIN clients \ {ip} : clients'[i] = clients[i]
                  /\ lims' = lims]_vars

C14_Witness ==
    \E t \in Workers :
        /\ th[t].pc = "allow"
        /\ th[t].ip \in DOMAIN clients
        /\ clients[th[t].ip] = [limiter |-> th[t].held, lastSeen |-> now]
        /\ Len(calls[th[t].held]) = 1
        /\ calls[th[t].held][1].ok /\ calls[th[t].held][1].at < now
        /\ lims[th[t].held].tokens = (Burst - 1) * One

(* C16: while an entry lives (its identity keeps its limiter) its lastSeen *)
(* never decreases, and it changes only in a GetLimiter call on that        *)
(* identity, which sets it to the time of the call; a sweep or an Allow()   *)
(* leaves the lastSeen of every entry that stays as it was.                 *)
C16_LastSeenMonotonic ==
    [][\A ip \in DOMAIN clients :
          (ip \in DOMAIN clients' /\ clients'[ip].limiter = clients[ip].limiter) =>
              /\ clients'[ip].lastSeen >= clients[ip].lastSeen
              /\ clients'[ip].lastSeen # clients[ip].lastSeen =>
                    /\ clients'[ip].lastSeen = now
                    /\ \E t \in Workers :
                          /\ th[t].pc = "gl_check" /\ th[t].ip = ip
                          /\ th'[t].pc = "allow"]_vars

C16_Witness ==
    \E ip \in DOMAIN clients :
        /\ last.op = "Cleanup"
        /\ ip \in DOMAIN last.pre
        /\ clients[ip] = last.pre[ip]
        /\ clients[ip].lastSeen > lims[clients[ip].limiter].last
        /\ calls[clients[ip].limiter] # << >>

(* C17: the identity of a request is its X-Forwarded-For value when that   *)
(* is not empty and its RemoteAddr otherwise; the limiter a request is      *)
(* charged against is the one of the entry keyed by exactly that string,    *)
(* the empty string included, so that requests on one limiter have equal    *)
(* identities and entries of different identities different limiters.       *)
C17_IdentityDerivation ==
    /\ [](last.op = "request" =>
            th[last.t].ip = IF last.pre[2] # "" THEN last.pre[2] ELSE last.pre[1])
    /\ [](\A i \in DOMAIN clients, j \in DOMAIN clients :
              clients[i].limiter = clients[j].limiter => i = j)
    /\ [](\A t \in Workers, u \in Workers :
              (th[t].pc = "allow" /\ th[u].pc = "allow" /\ th[t].held = th[u].held)
                  => th[t].ip = th[u].ip)
    /\ [][\A t \in Workers :
              (th[t].pc = "gl_check" /\ th[t].ip \in DOMAIN clients /\ th'[t].pc = "allow")
                  => (th'[t].ip = th[t].ip /\ th'[t].held = clients[th[t].ip].limiter)]_vars

C17_Witness ==
    \E t \in Workers, u \in Workers :
        /\ th[t].pc = "allow" /\ th[t].ip = ""
        /\ "" \in DOMAIN clients /\ th[t].held = clients[""].limiter
        /\ last.op = "request" /\ last.t = u /\ last.pre = <<"a", "b">>
        /\ th[u].ip = "b"
        /\ "b" \in DOMAIN clients /\ clients["b"].limiter # clients[""].limiter

(* The sweeper's sleep is over, or it is already in CleanupStaleClients. *)
SweepDue ==
    \/ th[SweeperId].pc \in {"cl_lock", "cl_sweep"}
    \/ th[SweeperId].pc = "sleep" /\ now >= wake

(* C15: with the sweeper installed, an entry that has gone stale is removed *)
(* by the sweep that is due, unless its identity is accessed again first:   *)
(* no stale entry stays in the registry for good.                           *)
C15_StaleEntriesSwept ==
    \A ip \in Idents :
        (Installed /\ SweepDue /\ ip \in DOMAIN clients /\ Stale(clients[ip], now))
            ~> (ip \notin DOMAIN clients \/ ~Stale(clients[ip], now))

(* The Allow() calls admitted from time s to time e, on whatever limiter. *)
AdmittedBetween(s, e) ==
    Cardinality({c \in {<<l, k>> : l \in DOMAIN calls, k \in 1..MaxLog} :
                    /\ c[2] \in DOMAIN calls[c[1]]
                    /\ calls[c[1]][c[2]].ok
                    /\ calls[c[1]][c[2]].at >= s /\ calls[c[1]][c[2]].at <= e})

C19_OnlyRegisteredKeysServed ==
    /\ [](\A t \in Workers : rq[t].pc # "idle" => (rq[t].hdr # "" /\ rq[t].hdr \in keys))
    /\ [](reply.status = 401 <=>
             (reply.route # "" /\ (reply.hdr = "" \/ reply.hdr \notin keys)))
    /\ [][/\ reply'.status = 401 => UNCHANGED <<data, dbmu, writes>>
          /\ keys \subseteq keys'
          /\ \A k \in ApiKeys :
                (k \in keys' /\ k \notin keys) =>
                    (keys' = keys \cup {k} /\ UNCHANGED <<data, dbmu, rq, writes>>)]_vars

C19_Witness ==
    /\ reply.status = 401 /\ reply.hdr = "k2" /\ reply.route = "set"
    /\ keys = {"k1"}
    /\ \E t \in Workers : rq[t].pc = "write" /\ rq[t].hdr = "k1"
    /\ data # << >>

====
